---- MODULE Spec2Model ----
(***************************************************************************)
(* Model of report_automation.py: the batch pipeline                       *)
(*   load_data -> clean_data -> calculate_kpis -> generate_visuals         *)
(*             -> export_to_excel -> simulate_email                        *)
(* run once by main().  A table (DataFrame) is a sequence of rows, each    *)
(* row a record carrying its index label and the four columns.  Missing    *)
(* cells are NA (text columns), NaN (numeric column) and, once order_date  *)
(* has been converted, NaT.  A raw order_date cell is the tuple of the     *)
(* numbers written in it (<<y, m, d>>), <<>> when the cell is empty.       *)
(***************************************************************************)
EXTENDS Integers, Sequences, FiniteSets, TLC

VARIABLES
    csv,              \* content of REPORT_CSV (a raw table)
    quicksort_ties,   \* how this build's (unstable) quicksort leaves equal keys
    pc,               \* position of main(): the step about to run
    raw_data,         \* main's raw_data
    clean_df,         \* main's clean_df
    kpis,             \* main's kpis
    weekly_sales,     \* generate_visuals' weekly_sales series
    top_products,     \* generate_visuals' top_products series
    chart_files,      \* main's chart_files (list of image paths)
    charts_on_disk,   \* image files present in CHART_DIR
    workbook,         \* EXCEL_REPORT on disk: "absent", "truncated" or "written"
    summary_sheet,    \* rows of the 'Summary' sheet (below its header row)
    images,           \* images inserted in the sheet: [row, path]
    stdout,           \* what the run printed, in order
    error             \* the uncaught exception that ended the run: the step of
                      \* main it was raised in and what it is ("none": none yet)

vars == <<csv, quicksort_ties, pc, raw_data, clean_df, kpis, weekly_sales,
          top_products, chart_files, charts_on_disk, workbook, summary_sheet,
          images, stdout, error>>

----------------------------------------------------------------------------
(* Bounds of the explored inputs *)

MaxRows == 3          \* longest table drawn from RowPool
MaxCharts == 3        \* longest chart list handed to export_to_excel alone

(* Missing values *)
NA == "NA"            \* empty text cell (order_id, product)
NaN == -1             \* empty numeric cell (sales is non-negative otherwise)
NaT == -1             \* order_date that to_datetime could not parse
Unset == "unset"

----------------------------------------------------------------------------
(* Calendar: Timestamps are counted in days since 2024-01-01, a Monday. *)

DaysInMonth == <<31, 29, 31, 30, 31, 30, 31, 31, 30, 31, 30, 31>>

RECURSIVE DaysBefore(_)
DaysBefore(m) == IF m <= 1 THEN 0 ELSE DaysBefore(m - 1) + DaysInMonth[m - 1]

\* pd.to_datetime(cell, errors='coerce'): the Timestamp, NaT when the cell is
\* empty or is no date of the calendar.
to_datetime(cell) ==
    IF Len(cell) # 3 THEN NaT
    ELSE IF cell[1] # 2024 THEN NaT
    ELSE IF cell[2] < 1 \/ cell[2] > 12 THEN NaT
    ELSE IF cell[3] < 1 \/ cell[3] > DaysInMonth[cell[2]] THEN NaT
    ELSE DaysBefore(cell[2]) + (cell[3] - 1)

\* Timestamp.weekday(): Monday = 0 ... Sunday = 6.
weekday(t) == t % 7

----------------------------------------------------------------------------
(* clean_data *)

\* df['order_date'] = pd.to_datetime(df['order_date'], errors='coerce')
coerce_dates(df) ==
    [i \in 1..Len(df) |-> [df[i] EXCEPT !.order_date = to_datetime(@)]]

\* Variants of isna_row with one column left out of the subset.
isna_row_without_sales(r) == r.order_id = NA \/ r.order_date = NaT

isna_row_without_order_id(r) == r.order_date = NaT \/ r.sales = NaN

\* A row with a missing value in one of the columns of the subset.
isna_row(r) == r.order_id = NA \/ r.order_date = NaT \/ r.sales = NaN

notna_row(r) == ~isna_row(r)

\* df.dropna(subset=['order_id', 'order_date', 'sales'])
dropna(df) == SelectSeq(df, notna_row)

clean_data(df) == dropna(coerce_dates(df))

----------------------------------------------------------------------------
(* Series helpers *)

\* Product labels in the order Python compares strings ('G' < 'P' < 'W');
\* groupby('product') returns its groups in this order (sort=True).
Labels == <<"Gadget", "P01", "P02", "P03", "P04", "P05", "P06", "P07", "P08",
            "P09", "P10", "P11", "Widget">>

RECURSIVE sum_sales(_)
\* Series.sum() over the sales column of a table: NaN cells are skipped, the
\* sum of no cells is 0.
sum_sales(df) ==
    IF Len(df) = 0 THEN 0
    ELSE (IF Head(df).sales = NaN THEN 0 ELSE Head(df).sales) + sum_sales(Tail(df))

RECURSIVE count_sales(_)
\* Series.count(): the number of cells that are not NaN.
count_sales(df) ==
    IF Len(df) = 0 THEN 0
    ELSE (IF Head(df).sales = NaN THEN 0 ELSE 1) + count_sales(Tail(df))

\* Series.mean(): sum / count, kept as the fraction num/den; 0/0 is NaN.
mean_sales(df) == [num |-> sum_sales(df), den |-> count_sales(df)]

\* Series.nunique(): distinct values, NA not counted.
nunique_order_id(df) ==
    Cardinality({df[i].order_id : i \in 1..Len(df)} \ {NA})

\* df.groupby('product')['sales'].sum(): one entry per product label present in
\* the table, in label order; rows whose product is NA belong to no group
\* (dropna=True).
groupby_product_sum(df) ==
    LET present(p) == \E i \in 1..Len(df) : df[i].product = p
        of_product(p) == LET is_p(r) == r.product = p IN SelectSeq(df, is_p)
        keys == SelectSeq(Labels, present)
    IN  [k \in 1..Len(keys) |->
            [product |-> keys[k], sales |-> sum_sales(of_product(keys[k]))]]

\* argsort of equal keys.  mergesort is stable: equal keys keep their positions.
\* quicksort (the default kind of sort_values) is not: the order it leaves
\* equal keys in depends on the build, and is the same for the same input.
tie_before(kind, i, j) ==
    IF kind = "mergesort" \/ quicksort_ties = "kept" THEN i < j ELSE i > j

\* The series ordered by value, largest first, with argsort kind `kind`.
sorted_desc(s, kind) ==
    LET before(i, j) == \/ s[i].sales > s[j].sales
                        \/ s[i].sales = s[j].sales /\ tie_before(kind, i, j)
        pos(i) == 1 + Cardinality({j \in 1..Len(s) : before(j, i)})
    IN  [k \in 1..Len(s) |-> s[CHOOSE i \in 1..Len(s) : pos(i) = k]]

\* Variant of sort_values_desc: the series is left in the order groupby gave it.
sort_values_not_applied(s) == s

\* Series.sort_values(ascending=False), kind='quicksort' by default.
sort_values_desc(s) == sorted_desc(s, "quicksort")

head(s, n) == SubSeq(s, 1, IF n < Len(s) THEN n ELSE Len(s))

\* Series.nlargest(n), keep='first': when n covers the whole series it is
\* sort_values(ascending=False).head(n); otherwise the n largest are selected
\* and ordered by a mergesort, so equal values keep their positions.
nlargest(s, n) ==
    IF n >= Len(s) THEN head(sort_values_desc(s), n)
    ELSE head(sorted_desc(s, "mergesort"), n)

----------------------------------------------------------------------------
(* calculate_kpis *)

calculate_kpis(df) ==
    [total_sales      |-> sum_sales(df),
     avg_order_value  |-> mean_sales(df),
     num_orders       |-> nunique_order_id(df),
     sales_by_product |-> sort_values_desc(groupby_product_sum(df))]

----------------------------------------------------------------------------
(* generate_visuals *)

TopN == 10

\* Variant of rollforward for weeks ending on Saturday (rule 'W-SAT').
rollforward_saturday(t) == IF weekday(t) = 5 THEN t ELSE t + ((12 - weekday(t)) % 7)

\* Week rule 'W' is W-SUN: bins end on Sunday, closed and labelled on the right.
rollforward(t) == IF weekday(t) = 6 THEN t ELSE t + (6 - weekday(t))

min_date(df) == CHOOSE t \in {df[i].order_date : i \in 1..Len(df)} :
                    \A i \in 1..Len(df) : t <= df[i].order_date
max_date(df) == CHOOSE t \in {df[i].order_date : i \in 1..Len(df)} :
                    \A i \in 1..Len(df) : t >= df[i].order_date

\* df.set_index('order_date').resample('W')['sales'].sum(): one bin per week
\* from the week of the earliest row to the week of the latest, each holding
\* the sum of the rows dated in (week_ending - 7, week_ending].
resample_W_sum(df) ==
    IF Len(df) = 0 THEN <<>>
    ELSE LET first == rollforward(min_date(df))
             last  == rollforward(max_date(df))
             in_bin(e) == LET f(r) == r.order_date > e - 7 /\ r.order_date <= e
                          IN  SelectSeq(df, f)
         IN  [k \in 1..((last - first) \div 7 + 1) |->
                 [week_ending |-> first + 7 * (k - 1),
                  sales       |-> sum_sales(in_bin(first + 7 * (k - 1)))]]

\* Variant of top_n_products that keeps one product fewer.
top_n_products_one_short(df) == nlargest(groupby_product_sum(df), TopN - 1)

\* df.groupby('product')['sales'].sum().nlargest(10)
top_n_products(df) == nlargest(groupby_product_sum(df), TopN)

----------------------------------------------------------------------------
(* export_to_excel *)

SummaryLabels == <<"Total Sales", "Average Order Value", "Number of Orders">>

\* summary_df: the 'Metric' and 'Value' columns, row by row.
summary_df(k) ==
    <<[Metric |-> SummaryLabels[1], Value |-> k.total_sales],
      [Metric |-> SummaryLabels[2], Value |-> k.avg_order_value],
      [Metric |-> SummaryLabels[3], Value |-> k.num_orders]>>

FirstImageGap == 3
RowsPerImage == 20

\* Variant of insert_images in which start_row is never advanced.
insert_images_same_row(paths, start_row) ==
    [i \in 1..Len(paths) |-> [row |-> start_row, path |-> paths[i]]]

\* The loop over chart_files: start_row = len(summary_df) + 3, then each image
\* is inserted at cell A<start_row> and start_row += 20.
insert_images(paths, start_row) ==
    [i \in 1..Len(paths) |->
        [row |-> start_row + RowsPerImage * (i - 1), path |-> paths[i]]]

----------------------------------------------------------------------------
(* Configuration and inputs *)

WEEKLY_SALES_PNG == "output/charts/weekly_sales.png"
TOP_PRODUCTS_PNG == "output/charts/top_products.png"
EXCEL_REPORT == "output/weekly_report.xlsx"
STAKEHOLDERS == <<"alice@example.com", "bob@example.com">>

Row(id, date, product, sales) ==
    [order_id |-> id, order_date |-> date, product |-> product, sales |-> sales]

\* Rows the short tables are built from: the three well-formed rows and the
\* row without order_id of the documented scenario, a second line of order O1
\* (dated on a Sunday, and tying Gadget with Widget), a row without product
\* three weeks later, and rows whose date is no calendar date, whose date is
\* empty and whose sales is empty.
RowPool ==
    { Row("O1", <<2024, 1, 1>>,  "Widget", 100),
      Row("O2", <<2024, 1, 2>>,  "Widget", 50),
      Row("O3", <<2024, 1, 8>>,  "Gadget", 200),
      Row(NA,   <<2024, 1, 3>>,  "Gadget", 75),
      Row("O1", <<2024, 1, 7>>,  "Gadget", 100),
      Row("O4", <<2024, 1, 22>>, NA,       50),
      Row("O5", <<2024, 2, 30>>, "Widget", 100),
      Row("O6", <<>>,            "Gadget", 50),
      Row("O7", <<2024, 1, 2>>,  "Widget", NaN) }

ShortTables == UNION {[1..n -> RowPool] : n \in 0..MaxRows}

\* Tables with one row for each of TopN + 1 products, each selling 200 but for at
\* most two that sell 100.
WideIds == <<"O1", "O2", "O3", "O4", "O5", "O6", "O7", "O8", "O9", "O10", "O11">>

WideSales ==
    { a \in [1..(TopN + 1) -> {100, 200}] :
        Cardinality({i \in 1..(TopN + 1) : a[i] = 100}) <= 2 }

WideTables ==
    { [i \in 1..(TopN + 1) |-> Row(WideIds[i], <<2024, 1, 1>>, Labels[i + 1], a[i])]
        : a \in WideSales }

Tables == ShortTables \cup WideTables

TieOrders == {"kept", "reversed"}

----------------------------------------------------------------------------
(* main: one action per step, each the whole call *)

Init ==
    /\ csv \in Tables
    /\ quicksort_ties \in TieOrders
    /\ pc = "load_data"
    /\ raw_data = Unset
    /\ clean_df = Unset
    /\ kpis = Unset
    /\ weekly_sales = Unset
    /\ top_products = Unset
    /\ chart_files = <<>>
    /\ charts_on_disk = {}
    /\ workbook = "absent"
    /\ summary_sheet = <<>>
    /\ images = <<>>
    /\ stdout = <<>>
    /\ error = [step |-> "none", what |-> "none"]

\* The steps of main, in the order it calls them.
Steps == <<"load_data", "clean_data", "calculate_kpis", "generate_visuals",
           "export_to_excel", "simulate_email">>

StepNo(step) == CHOOSE i \in 1..Len(Steps) : Steps[i] = step

\* An uncaught exception ends the run: nothing in main catches it.
raise(e) == pc' = "failed" /\ error' = [step |-> pc, what |-> e]

\* The step has returned in this run.
Returned(step) ==
    \/ pc = "done"
    \/ pc \notin {"done", "failed"} /\ StepNo(step) < StepNo(pc)
    \/ pc = "failed" /\ StepNo(step) < StepNo(error.step)

\* pd.read_csv(filepath): rows get the index labels 0, 1, 2, ...
read_csv(file) ==
    [i \in 1..Len(file) |->
        [index |-> i - 1, order_id |-> file[i].order_id,
         order_date |-> file[i].order_date, product |-> file[i].product,
         sales |-> file[i].sales]]

\* load_data(REPORT_CSV): pd.read_csv raises when the file cannot be read.
load_data ==
    /\ pc = "load_data"
    /\ \/ /\ raise("FileNotFoundError")
          /\ UNCHANGED raw_data
       \/ /\ raw_data' = read_csv(csv)
          /\ pc' = "clean_data"
          /\ UNCHANGED error
    /\ UNCHANGED <<csv, quicksort_ties, clean_df, kpis, weekly_sales, top_products,
                   chart_files, charts_on_disk, workbook, summary_sheet, images,
                   stdout>>

\* clean_data(raw_data): the conversion is assigned into the frame passed in,
\* so raw_data's order_date column is converted too.
clean_data_step ==
    /\ pc = "clean_data"
    /\ raw_data' = coerce_dates(raw_data)
    /\ clean_df' = clean_data(raw_data)
    /\ pc' = "calculate_kpis"
    /\ UNCHANGED <<csv, quicksort_ties, kpis, weekly_sales, top_products,
                   chart_files, charts_on_disk, workbook, summary_sheet, images,
                   stdout, error>>

calculate_kpis_step ==
    /\ pc = "calculate_kpis"
    /\ kpis' = calculate_kpis(clean_df)
    /\ pc' = "generate_visuals"
    /\ UNCHANGED <<csv, quicksort_ties, raw_data, clean_df, weekly_sales,
                   top_products, chart_files, charts_on_disk, workbook,
                   summary_sheet, images, stdout, error>>

\* generate_visuals(clean_df, CHART_DIR).  os.makedirs and each savefig can fail
\* with OSError.  Series.plot(kind='bar') of a series without entries raises
\* IndexError (the bar positions are indexed at [0]); the line plot of an empty
\* weekly series raises ValueError (the x limits are the minimum and maximum
\* of no points) in the pandas versions that reset the limits, not in others.
generate_visuals ==
    /\ pc = "generate_visuals"
    /\ \/ /\ raise("OSError: makedirs")
          /\ UNCHANGED <<weekly_sales, top_products, chart_files, charts_on_disk>>
       \/ /\ Len(resample_W_sum(clean_df)) = 0
          /\ weekly_sales' = resample_W_sum(clean_df)
          /\ raise("ValueError: line plot of an empty series")
          /\ UNCHANGED <<top_products, chart_files, charts_on_disk>>
       \/ /\ weekly_sales' = resample_W_sum(clean_df)
          /\ raise("OSError: savefig weekly_sales")
          /\ UNCHANGED <<top_products, chart_files, charts_on_disk>>
       \/ /\ Len(top_n_products(clean_df)) = 0
          /\ weekly_sales' = resample_W_sum(clean_df)
          /\ top_products' = top_n_products(clean_df)
          /\ charts_on_disk' = charts_on_disk \cup {WEEKLY_SALES_PNG}
          /\ raise("IndexError: bar plot of an empty series")
          /\ UNCHANGED chart_files
       \/ /\ Len(top_n_products(clean_df)) > 0
          /\ weekly_sales' = resample_W_sum(clean_df)
          /\ top_products' = top_n_products(clean_df)
          /\ charts_on_disk' = charts_on_disk \cup {WEEKLY_SALES_PNG}
          /\ raise("OSError: savefig top_products")
          /\ UNCHANGED chart_files
       \/ /\ Len(top_n_products(clean_df)) > 0
          /\ weekly_sales' = resample_W_sum(clean_df)
          /\ top_products' = top_n_products(clean_df)
          /\ charts_on_disk' = charts_on_disk \cup {WEEKLY_SALES_PNG, TOP_PRODUCTS_PNG}
          /\ chart_files' = <<WEEKLY_SALES_PNG, TOP_PRODUCTS_PNG>>
          /\ pc' = "export_to_excel"
          /\ UNCHANGED error
    /\ UNCHANGED <<csv, quicksort_ties, raw_data, clean_df, kpis, workbook,
                   summary_sheet, images, stdout>>

\* Variant of export_to_excel that catches the error of a failed write and
\* returns as if the report had been created.
export_to_excel_swallowing ==
    /\ pc = "export_to_excel"
    /\ \/ /\ raise("OSError: makedirs")
          /\ UNCHANGED <<workbook, summary_sheet, images, stdout>>
       \/ /\ workbook' \in {"absent", "truncated"}
          /\ pc' = "simulate_email"
          /\ UNCHANGED <<summary_sheet, images, stdout, error>>
       \/ /\ workbook' = "written"
          /\ summary_sheet' = summary_df(kpis)
          /\ images' = insert_images(chart_files, Len(summary_df(kpis)) + FirstImageGap)
          /\ stdout' = Append(stdout, [kind |-> "report_created", to |-> <<>>,
                                       attachments |-> <<EXCEL_REPORT>>])
          /\ pc' = "simulate_email"
          /\ UNCHANGED error
    /\ UNCHANGED <<csv, quicksort_ties, raw_data, clean_df, kpis, weekly_sales,
                   top_products, chart_files, charts_on_disk>>

\* export_to_excel(kpis, chart_files, EXCEL_REPORT).  os.makedirs can fail before
\* anything is written; writing the file (on leaving the with block) can fail
\* and leave no file or a truncated one; the print that follows runs once the
\* file is complete, and can fail too (stdout closed).
export_to_excel ==
    /\ pc = "export_to_excel"
    /\ \/ /\ raise("OSError: makedirs")
          /\ UNCHANGED <<workbook, summary_sheet, images, stdout>>
       \/ /\ workbook' \in {"absent", "truncated"}
          /\ raise("OSError: workbook")
          /\ UNCHANGED <<summary_sheet, images, stdout>>
       \/ /\ workbook' = "written"
          /\ summary_sheet' = summary_df(kpis)
          /\ images' = insert_images(chart_files, Len(summary_df(kpis)) + FirstImageGap)
          /\ raise("OSError: print")
          /\ UNCHANGED stdout
       \/ /\ workbook' = "written"
          /\ summary_sheet' = summary_df(kpis)
          /\ images' = insert_images(chart_files, Len(summary_df(kpis)) + FirstImageGap)
          /\ stdout' = Append(stdout, [kind |-> "report_created", to |-> <<>>,
                                       attachments |-> <<EXCEL_REPORT>>])
          /\ pc' = "simulate_email"
          /\ UNCHANGED error
    /\ UNCHANGED <<csv, quicksort_ties, raw_data, clean_df, kpis, weekly_sales,
                   top_products, chart_files, charts_on_disk>>

\* simulate_email(STAKEHOLDERS, subject, email_body, [EXCEL_REPORT] + chart_files):
\* prints only, and a print can fail.
simulate_email ==
    /\ pc = "simulate_email"
    /\ \/ /\ raise("OSError: print")
          /\ UNCHANGED stdout
       \/ /\ stdout' = Append(stdout, [kind |-> "email", to |-> STAKEHOLDERS,
                                       attachments |-> <<EXCEL_REPORT>> \o chart_files])
          /\ pc' = "done"
          /\ UNCHANGED error
    /\ UNCHANGED <<csv, quicksort_ties, raw_data, clean_df, kpis, weekly_sales,
                   top_products, chart_files, charts_on_disk, workbook,
                   summary_sheet, images>>

Next ==
    \/ load_data
    \/ clean_data_step
    \/ calculate_kpis_step
    \/ generate_visuals
    \/ export_to_excel
    \/ simulate_email

Spec == Init /\ [][Next]_vars

----------------------------------------------------------------------------
(* export_to_excel on its own: called with any KPI summary and any list of
   chart paths, not only the two that generate_visuals returns *)

ChartPaths == {WEEKLY_SALES_PNG, TOP_PRODUCTS_PNG}

ChartLists == UNION {[1..n -> ChartPaths] : n \in 0..MaxCharts}

KpiSummaries == {calculate_kpis(clean_data(read_csv(t))) : t \in ShortTables}

InitExport ==
    /\ csv = <<>>
    /\ quicksort_ties = "kept"
    /\ pc = "export_to_excel"
    /\ raw_data = Unset
    /\ clean_df = Unset
    /\ kpis \in KpiSummaries
    /\ weekly_sales = Unset
    /\ top_products = Unset
    /\ chart_files \in ChartLists
    /\ charts_on_disk = {chart_files[i] : i \in 1..Len(chart_files)}
    /\ workbook = "absent"
    /\ summary_sheet = <<>>
    /\ images = <<>>
    /\ stdout = <<>>
    /\ error = [step |-> "none", what |-> "none"]

NextExport == export_to_excel

SpecExport == InitExport /\ [][NextExport]_vars

----------------------------------------------------------------------------
(* Properties *)

\* What the specification calls a record with its required fields present: an
\* order_id, a sales amount, and an order_date cell that names a day of the
\* calendar.
IsCalendarDate(cell) ==
    /\ Len(cell) = 3
    /\ cell[2] \in 1..12
    /\ cell[3] \in 1..DaysInMonth[cell[2]]

RequiredPresent(r) ==
    r.order_id # NA /\ r.sales # NaN /\ IsCalendarDate(r.order_date)

\* Positions of the input rows that are to survive cleaning.
Survivors == {i \in 1..Len(csv) : RequiredPresent(csv[i])}

RECURSIVE SumOver(_, _)
\* Sum of f over a finite set of positions.
SumOver(S, f) ==
    IF S = {} THEN 0
    ELSE LET i == CHOOSE x \in S : TRUE IN f[i] + SumOver(S \ {i}, f)

SurvivorSales == SumOver(Survivors, [i \in 1..Len(csv) |-> csv[i].sales])

\* The input with row r inserted after its first i rows.
InsertAt(t, i, r) == SubSeq(t, 1, i) \o <<r>> \o SubSeq(t, i + 1, Len(t))

\* C1: the table clean_data returns holds exactly the input rows whose
\* order_id, order_date and sales are present and whose order_date is a date,
\* in input order and otherwise unchanged, and cleaning raises nothing.
C1_CleanKeepsExactlyValidRows ==
    /\ error.step # "clean_data"
    /\ Returned("clean_data") =>
          /\ {clean_df[k].index + 1 : k \in 1..Len(clean_df)} = Survivors
          /\ \A k \in 1..Len(clean_df) : \A l \in 1..Len(clean_df) :
                k < l => clean_df[k].index < clean_df[l].index
          /\ \A k \in 1..Len(clean_df) :
                LET r == clean_df[k]
                    c == csv[r.index + 1]
                IN  /\ r.order_id = c.order_id
                    /\ r.product = c.product
                    /\ r.sales = c.sales
                    /\ r.order_date =
                         DaysBefore(c.order_date[2]) + c.order_date[3] - 1

\* C1 witness: cleaning has removed a row and kept two others.
C1_Witness ==
    /\ Returned("clean_data")
    /\ Len(clean_df) = 2
    /\ Len(csv) = 3
    /\ clean_df[1].index = 0
    /\ clean_df[2].index = 2

\* C2: total_sales is the sum of sales over exactly the rows that survive
\* cleaning, and a run on the input with one more row, whose sales is missing,
\* gives the same total_sales.
C2_TotalSalesOverCleanedRows ==
    Returned("calculate_kpis") =>
        /\ kpis.total_sales = SurvivorSales
        /\ pc = "generate_visuals" =>
              \A r \in {x \in RowPool : x.sales = NaN} : \A i \in 0..Len(csv) :
                 calculate_kpis(clean_data(read_csv(InsertAt(csv, i, r)))).total_sales
                     = kpis.total_sales

\* C2 witness: a total computed from an input in which a row without sales and
\* a row without order_id were dropped.
C2_Witness ==
    /\ Returned("calculate_kpis")
    /\ kpis.total_sales = 100
    /\ \E i \in 1..Len(csv) : csv[i].sales = NaN
    /\ \E i \in 1..Len(csv) : csv[i].order_id = NA

\* C3 (as claimed): whenever num_orders > 0, avg_order_value equals
\* total_sales / num_orders, num_orders being the number of distinct order_id.
C3_AvgIsTotalOverNumOrders ==
    (Returned("calculate_kpis") /\ kpis.num_orders > 0) =>
        kpis.avg_order_value.num * kpis.num_orders
            = kpis.total_sales * kpis.avg_order_value.den

\* C4 (as claimed): the values of sales_by_product sum to total_sales, rows
\* without a product forming a group of their own.
C4_ProductSalesSumToTotal ==
    Returned("calculate_kpis") =>
        LET sbp == kpis.sales_by_product IN
        /\ SumOver(1..Len(sbp), [k \in 1..Len(sbp) |-> sbp[k].sales])
              = kpis.total_sales
        /\ (\E i \in 1..Len(clean_df) : clean_df[i].product = NA)
              => \E k \in 1..Len(sbp) : sbp[k].product = NA

\* Product labels of the cleaned table (rows without a product have none).
ProductsOf(df) == {df[i].product : i \in 1..Len(df)} \ {NA}

\* Sum of sales of the rows of product p.
ProductSales(df, p) ==
    SumOver({i \in 1..Len(df) : df[i].product = p}, [i \in 1..Len(df) |-> df[i].sales])

\* Position of the first row of product p.
FirstSeen(df, p) ==
    CHOOSE i \in 1..Len(df) :
        df[i].product = p /\ \A j \in 1..(i - 1) : df[j].product # p

NonIncreasing(s) == \A i \in 1..Len(s) : \A j \in 1..Len(s) :
                        i < j => s[i].sales >= s[j].sales

BothChartsOnDisk == {WEEKLY_SALES_PNG, TOP_PRODUCTS_PNG} \subseteq charts_on_disk

Emailed == \E i \in 1..Len(stdout) : stdout[i].kind = "email"

\* C6 (as claimed): a failed run never leaves a workbook on disk, and the
\* notification comes only after the workbook and both charts are written.
C6_NoWorkbookWhenFailed ==
    /\ pc = "failed" => workbook = "absent"
    /\ Emailed => (workbook = "written" /\ BothChartsOnDisk)

\* C6 (amended): a run that fails in load, clean, KPIs or charts, or in the
\* directory creation of export, leaves no workbook; a run that ends normally
\* has written both charts and the workbook and emitted the notification; the
\* workbook is written only after both charts, the notification only after
\* the workbook.  (A failure while or after the workbook is written leaves it.)
C6_FailureBeforeExportLeavesNoWorkbook ==
    /\ (pc = "failed" /\ StepNo(error.step) < StepNo("export_to_excel"))
          => workbook = "absent"
    /\ (pc = "failed" /\ error.what = "OSError: makedirs") => workbook = "absent"
    /\ pc = "done" => (workbook = "written" /\ BothChartsOnDisk /\ Emailed
                       /\ error.what = "none")
    /\ workbook # "absent" => BothChartsOnDisk
    /\ Emailed => (workbook = "written" /\ BothChartsOnDisk /\ pc = "done")

\* C6 witness: the run has failed in simulate_email and the workbook is on disk.
C6_Witness ==
    /\ pc = "failed"
    /\ error.step = "simulate_email"
    /\ workbook = "written"

\* C7 (as claimed): with an empty cleaned table calculate_kpis returns
\* total_sales = 0 and num_orders = 0, and generate_visuals does not fail on
\* the empty data.
C7_EmptyTableIsReported ==
    (Returned("clean_data") /\ Len(clean_df) = 0) =>
        /\ Returned("calculate_kpis") =>
              (kpis.total_sales = 0 /\ kpis.num_orders = 0)
        /\ ~(/\ pc = "failed"
             /\ error.step = "generate_visuals"
             /\ error.what \in {"ValueError: line plot of an empty series",
                                "IndexError: bar plot of an empty series"})

\* The Sunday on or after day t.
SundayOnOrAfter(t) == CHOOSE u \in t..(t + 6) : weekday(u) = 6

\* generate_visuals got as far as building weekly_sales.
WeeklyBuilt ==
    \/ Returned("generate_visuals")
    \/ pc = "failed" /\ error.step = "generate_visuals"
                     /\ error.what # "OSError: makedirs"

Scenario == <<Row("O1", <<2024, 1, 1>>, "Widget", 100),
              Row("O2", <<2024, 1, 2>>, "Widget", 50),
              Row("O3", <<2024, 1, 8>>, "Gadget", 200)>>

\* C8: every record falls in exactly one bucket of weekly_sales, the week
\* ending on the Sunday on or after its order_date; buckets are consecutive
\* weeks in ascending order from the first record's week to the last one's,
\* each holding the sum of its records' sales (0 when it has none), and they
\* sum to total_sales.  The scenario's records give the buckets 150 and 200.
C8_WeeklyBuckets ==
    WeeklyBuilt =>
        LET w == weekly_sales
            rows(e) == {i \in 1..Len(clean_df) :
                           SundayOnOrAfter(clean_df[i].order_date) = e}
            sales == [i \in 1..Len(clean_df) |-> clean_df[i].sales]
        IN  /\ \A k \in 1..Len(w) : weekday(w[k].week_ending) = 6
            /\ \A k \in 1..(Len(w) - 1) : w[k + 1].week_ending = w[k].week_ending + 7
            /\ \A i \in 1..Len(clean_df) :
                  Cardinality({k \in 1..Len(w) : w[k].week_ending
                                  = SundayOnOrAfter(clean_df[i].order_date)}) = 1
            /\ \A k \in 1..Len(w) : w[k].sales = SumOver(rows(w[k].week_ending), sales)
            /\ Len(w) > 0 => (rows(w[1].week_ending) # {}
                              /\ rows(w[Len(w)].week_ending) # {})
            /\ Len(clean_df) = 0 => Len(w) = 0
            /\ SumOver(1..Len(w), [k \in 1..Len(w) |-> w[k].sales]) = kpis.total_sales
            /\ csv = Scenario =>
                  w = <<[week_ending |-> 6, sales |-> 150],
                        [week_ending |-> 13, sales |-> 200]>>

\* C8 witness: the weekly series of the scenario's three records.
C8_Witness == WeeklyBuilt /\ csv = Scenario /\ Len(weekly_sales) = 2

\* generate_visuals got as far as building top_products.
TopBuilt ==
    \/ Returned("generate_visuals")
    \/ pc = "failed" /\ error.step = "generate_visuals"
                     /\ error.what \in {"IndexError: bar plot of an empty series",
                                        "OSError: savefig top_products"}

Min(a, b) == IF a < b THEN a ELSE b

C10_SheetLayout ==
    workbook = "written" =>
        /\ Len(summary_sheet) = 3
        /\ summary_sheet[1] = [Metric |-> "Total Sales", Value |-> kpis.total_sales]
        /\ summary_sheet[2] = [Metric |-> "Average Order Value",
                               Value |-> kpis.avg_order_value]
        /\ summary_sheet[3] = [Metric |-> "Number of Orders", Value |-> kpis.num_orders]
        /\ Len(images) = Len(chart_files)
        /\ \A i \in 1..Len(images) :
              /\ images[i].path = chart_files[i]
              /\ images[i].row = (3 + 3) + 20 * (i - 1)
              /\ images[i].row > 1 + Len(summary_sheet)
        /\ \A i \in 1..(Len(images) - 1) : images[i + 1].row = images[i].row + 20

\* C10 witness: a workbook written with three embedded charts.
C10_Witness == workbook = "written" /\ Len(images) = 3

====
